---- MODULE Spec2Model ----
(***************************************************************************)
(* The Route53 registry adapter of registrator (route53/route53.go and its *)
(* hostname/address helpers) as a state machine.                            *)
(*                                                                         *)
(* Every host runs one Route53Registry against one shared hosted zone.      *)
(* A call of Register or Deregister is a sequence of record-set edits;      *)
(* every edit is one ListResourceRecordSets call followed by at most one    *)
(* ChangeResourceRecordSets call, and the calls of different hosts          *)
(* interleave at the granularity of these store calls.                      *)
(*                                                                         *)
(* Strings are sequences of one-character strings, so that fmt.Sprintf,     *)
(* strings.Split, strings.Contains and strconv.Atoi are computed on the     *)
(* characters as the Go code computes them.                                 *)
(***************************************************************************)
EXTENDS Integers, Sequences, FiniteSets, TLC

\* ------------------------------------------------------------------ bounds

\* Calls of Register, Deregister and Services in a run whose calls do not
\* overlap and whose store calls all succeed.
MaxOps == 3

\* Calls in a run in which the calls of different hosts overlap.
MaxRaceOps == 2

\* Calls, and failing store calls, in a run in which store calls may fail.
MaxFailOps == 2

MaxFail == 2

\* Calls in a run that looks at one feature only: the decoding of stored
\* values, the address attributes, or repeated calls of Ping.
MaxProbeOps == 1

\* Calls of Ping, successful or failed, after the first successful one.
MaxPings == 2

\* ----------------------------------------------------------------- strings

\* The characters that occur in the model, in ASCII order.
Alphabet ==
  << "\"", " ", "-", ".", "0", "1", "2", "3", "4", "5", "6", "7", "8", "9",
     ":", "A", "R", "S", "T", "V", "X", "_", "a", "b", "c", "e", "i", "p", "r",
     "s", "t", "v", "w", "z", "|" >>

CharRank(c) == CHOOSE i \in 1..Len(Alphabet) : Alphabet[i] = c

\* Go's string comparison: lexicographic on the bytes.
RECURSIVE StrLess(_, _)
StrLess(a, b) ==
  IF b = <<>> THEN FALSE
  ELSE IF a = <<>> THEN TRUE
  ELSE IF Head(a) = Head(b) THEN StrLess(Tail(a), Tail(b))
  ELSE CharRank(Head(a)) < CharRank(Head(b))

Digits == << "0", "1", "2", "3", "4", "5", "6", "7", "8", "9" >>

IsDigit(c) == \E i \in 1..10 : Digits[i] = c

DigitVal(c) == (CHOOSE i \in 1..10 : Digits[i] = c) - 1

\* fmt.Sprintf("%d", n) for n >= 0.
RECURSIVE Itoa(_)
Itoa(n) ==
  IF n < 10 THEN << Digits[n + 1] >>
  ELSE Itoa(n \div 10) \o << Digits[(n % 10) + 1] >>

RECURSIVE DigitsVal(_, _)
DigitsVal(s, acc) ==
  IF s = <<>> THEN acc ELSE DigitsVal(Tail(s), acc * 10 + DigitVal(Head(s)))

AllDigits(s) == s # <<>> /\ \A i \in 1..Len(s) : IsDigit(s[i])

\* strconv.Atoi: an optional sign followed by decimal digits, else an error.
AtoiOk(s) ==
  \/ AllDigits(s)
  \/ Len(s) >= 2 /\ s[1] \in {"-", "+"} /\ AllDigits(Tail(s))

Atoi(s) ==
  IF AllDigits(s) THEN DigitsVal(s, 0)
  ELSE IF s[1] = "-" THEN 0 - DigitsVal(Tail(s), 0)
  ELSE DigitsVal(Tail(s), 0)

\* strings.Split(s, sep) for a one-character separator.
RECURSIVE SplitAcc(_, _, _, _)
SplitAcc(s, sep, cur, acc) ==
  IF s = <<>> THEN Append(acc, cur)
  ELSE IF Head(s) = sep THEN SplitAcc(Tail(s), sep, <<>>, Append(acc, cur))
  ELSE SplitAcc(Tail(s), sep, Append(cur, Head(s)), acc)

Split(s, sep) == SplitAcc(s, sep, <<>>, <<>>)

\* strings.Contains(s, sub).
Contains(s, sub) ==
  \E i \in 0..(Len(s) - Len(sub)) : SubSeq(s, i + 1, i + Len(sub)) = sub

\* strings.TrimPrefix and strings.TrimSuffix for a one-character affix.
TrimPrefix(s, c) == IF s # <<>> /\ s[1] = c THEN Tail(s) ELSE s

TrimSuffix(s, c) ==
  IF s # <<>> /\ s[Len(s)] = c THEN SubSeq(s, 1, Len(s) - 1) ELSE s

\* strconv.ParseBool on the attribute values the model uses.
ParseBoolOk(str) ==
  str \in {"1", "t", "T", "TRUE", "true", "True",
           "0", "f", "F", "FALSE", "false", "False"}

ParseBool(str) == str \in {"1", "t", "T", "TRUE", "true", "True"}


\* ------------------------------------------------------------- environment

\* The hosts that run the adapter against the same hosted zone.
Hosts == {1, 2}

\* os.Hostname() of each host; the first is a prefix of the second.
OsHostname(h) == IF h = 1 THEN << "a" >> ELSE << "a", "b" >>

\* externalIP(): the first non-loopback IPv4 address of the host.
externalIP(h) ==
  IF h = 1 THEN << "1", ".", "1" >> ELSE << "1", ".", "1", "2" >>

\* ec2Meta(key): the answer of the instance metadata service on each host.
ec2Meta(h, key) ==
  CASE key = "hostname" ->
         IF h = 1 THEN << "e", "1" >> ELSE << "e", "2" >>
    [] key = "local-ipv4" -> externalIP(h)
    [] key = "public-ipv4" ->
         IF h = 1 THEN << "2", ".", "1" >> ELSE << "2", ".", "1", "2" >>

\* resp.HostedZone.Name of GetHostedZone.
HostedZoneName == << "z", "." >>

\* The dnsPrefix query parameters the model configures.
DnsPrefixes == { <<>>, << "p" >> }

\* bridge.Service values handed to the adapter: one service name, two ports,
\* each address attribute absent, "true", "false" or not a boolean.
ServiceNames == { << "w" >> }

Ports == {80, 81}

AttrValues == {"true", "false", "yes"}

AttrSets ==
  UNION { [ks -> AttrValues] : ks \in SUBSET {"localarecord", "publicarecord"} }

\* The attribute maps in which every attribute that is present is "true".
TrueAttrSets == { a \in AttrSets : \A k \in DOMAIN a : a[k] = "true" }

\* The attribute maps with no attribute.
NoAttrSets == { a \in AttrSets : DOMAIN a = {} }

\* service.ID as the bridge builds it: "<container>:<name>-<port>".
ServiceID(name, port) == << "c", ":" >> \o name \o << "-" >> \o Itoa(port)

\* const TTL
TTL == 30

\* ------------------------------------------------------------------- store

RRTypeA == "A"
RRTypeSrv == "SRV"
RRTypeTxt == "TXT"

TypeRank(t) == CASE t = RRTypeA -> 1 [] t = RRTypeSrv -> 2 [] t = RRTypeTxt -> 3

\* No record set: the nil slice of an empty ListResourceRecordSets answer.
Nil == [nil |-> TRUE]

\* The order in which the store lists record sets: name, type, identifier.
KeyLeq(n1, t1, i1, n2, t2, i2) ==
  IF n1 # n2 THEN StrLess(n1, n2)
  ELSE IF t1 # t2 THEN TypeRank(t1) < TypeRank(t2)
  ELSE i1 = i2 \/ StrLess(i1, i2)

RsLeq(a, b) == KeyLeq(a.name, a.type, a.id, b.name, b.type, b.id)

\* The record sets at or after the start key.
ListFrom(z, name, type, id) ==
  { rs \in z : KeyLeq(name, type, id, rs.name, rs.type, rs.id) }

\* A set of record sets as the list the store returns, in key order.
RECURSIVE Sorted(_)
Sorted(z) ==
  IF z = {} THEN <<>>
  ELSE LET first == CHOOSE rs \in z : \A o \in z : RsLeq(rs, o)
       IN  << first >> \o Sorted(z \ {first})

\* ListResourceRecordSets with MaxItems = 1: the first record set at or after
\* the start key, or none.
ListOne(z, name, type, id) ==
  LET from == ListFrom(z, name, type, id)
  IN  IF from = {} THEN Nil
      ELSE CHOOSE rs \in from : \A o \in from : RsLeq(rs, o)

\* ChangeResourceRecordSets with one change. UPSERT creates or replaces the
\* record set of the key; DELETE removes it.
ApplyChange(z, ch) ==
  LET others == { rs \in z :
                    ~(rs.name = ch.name /\ rs.type = ch.type /\ rs.id = ch.id) }
  IN  IF ch.action = "UPSERT"
      THEN others \cup { [name |-> ch.name, type |-> ch.type, id |-> ch.id,
                          values |-> ch.values, ttl |-> ch.ttl] }
      ELSE others


\* ------------------------------------------------- what the zone may hold

\* "<hostname>.services.<zone name>": the pointer/text name of a host.
TxtDomainOf(hn) ==
  hn \o << ".", "s", "e", "r", "v", "i", "c", "e", "s", "." >> \o HostedZoneName

\* A pointer/text payload "<label>:<suffix>:<port>|<serviceID>|<name>".
PointerText(label, suffix, port, serviceID, name) ==
  label \o << ":" >> \o suffix \o << ":" >> \o port \o << "|" >> \o serviceID
    \o << "|" >> \o name

Quoted(value) == << "\"" >> \o value \o << "\"" >>

\* Values that a pointer/text record set of the zone may hold when Services
\* lists it: well-formed payloads of this host (under its OS hostname and its
\* metadata hostname) and of another host, quoted and unquoted, a payload
\* with four pipe-fields, bare identity keys of this host and of another
\* host, and malformed ones (no colon, a host label alone, a port that is no
\* number, the empty string).
StoredValues ==
  { Quoted(PointerText(<< "a" >>, << "c" >>, << "8", "0" >>,
                       ServiceID(<< "w" >>, 80), << "w" >>)),
    PointerText(<< "e", "1" >>, << "c" >>, << "8", "0" >>,
                ServiceID(<< "w" >>, 80), << "w" >>),
    Quoted(PointerText(<< "a", "b" >>, << "c" >>, << "8", "0" >>,
                       ServiceID(<< "w" >>, 80), << "w" >>)),
    << "a", ":", "c", ":", "8", "0", "|", "x", "|", "8", "0", "|", "w" >>,
    << "a", "|", "x", "|", "8", "0", "|", "w" >>,
    << "a" >>,
    << "a", ":", "c", ":", "x" >>,
    Quoted(<< "a", ":", "c", ":", "8", "0" >>),
    << "a", "b", ":", "c", ":", "8", "0" >>,
    <<>> }

\* All the stored values in one list, in a fixed order.
RECURSIVE ListOf(_)
ListOf(vs) ==
  IF vs = {} THEN <<>>
  ELSE LET v == CHOOSE x \in vs : TRUE IN << v >> \o ListOf(vs \ {v})

\* A pointer/text record set of the host with OS hostname hn.
TxtSet(hn, values) ==
  [name |-> TxtDomainOf(hn), type |-> RRTypeTxt, id |-> hn, values |-> values,
   ttl |-> TTL]

\* Zones with pointer/text record sets written before the run: one value or
\* all values, under the name of this host or of the other host.
TxtZones ==
  { { TxtSet(hn, << v >>) } : hn \in { << "a" >>, << "a", "b" >> },
                              v \in StoredValues }
    \cup { { TxtSet(<< "a", "b" >>, ListOf(StoredValues)) } }

\* Zones for the runs on the address attributes: empty, or with an ADDRESS
\* record set at the name of the service.
AddressZones ==
  { {},
    { [name |-> << "w", "." >> \o HostedZoneName, type |-> RRTypeA,
       id |-> << "w", "." >> \o HostedZoneName, values |-> << << "9", ".", "9" >> >>,
       ttl |-> TTL] } }

\* The kinds of run explored: which hosts make calls, whether their calls
\* overlap, the ports and attributes of the services, the configured
\* dnsPrefix, the record sets the zone holds at the start, how many calls are
\* made, how many store calls fail and how often Ping is called again.
Profiles ==
  { [hosts |-> {1}, overlap |-> FALSE, ports |-> Ports,
     prefixes |-> DnsPrefixes, attrs |-> TrueAttrSets, zones |-> { {} },
     ops |-> MaxOps, fails |-> 0, pings |-> 0],
    [hosts |-> Hosts, overlap |-> FALSE, ports |-> {80},
     prefixes |-> { <<>> }, attrs |-> TrueAttrSets, zones |-> { {} },
     ops |-> MaxOps, fails |-> 0, pings |-> 0],
    [hosts |-> Hosts, overlap |-> TRUE, ports |-> {80},
     prefixes |-> { <<>> }, attrs |-> TrueAttrSets, zones |-> { {} },
     ops |-> MaxRaceOps, fails |-> 0, pings |-> 0],
    [hosts |-> {1}, overlap |-> FALSE, ports |-> {80},
     prefixes |-> { <<>> }, attrs |-> TrueAttrSets, zones |-> { {} },
     ops |-> MaxFailOps, fails |-> MaxFail, pings |-> 0],
    [hosts |-> {1}, overlap |-> FALSE, ports |-> {80},
     prefixes |-> { <<>> }, attrs |-> NoAttrSets, zones |-> TxtZones,
     ops |-> MaxProbeOps, fails |-> 0, pings |-> 0],
    [hosts |-> {1}, overlap |-> FALSE, ports |-> {80},
     prefixes |-> { <<>> }, attrs |-> AttrSets \ TrueAttrSets,
     zones |-> AddressZones, ops |-> MaxProbeOps, fails |-> 0, pings |-> 0],
    [hosts |-> {1}, overlap |-> FALSE, ports |-> {80},
     prefixes |-> DnsPrefixes, attrs |-> NoAttrSets, zones |-> { {} },
     ops |-> MaxProbeOps, fails |-> MaxFail, pings |-> MaxPings] }


\* ------------------------------------------------------------------- state

VARIABLES
  zone,             \* the record sets of the hosted zone
  recordPerHost,    \* Route53Registry.recordPerHost (every host alike)
  useEc2Meatadata,  \* Route53Registry.useEc2Meatadata (every host alike)
  dnsPrefix,        \* Route53Registry.dnsPrefix (every host alike)
  dnsSuffix,        \* Route53Registry.dnsSuffix of each host
  hostname,         \* Route53Registry.hostname of each host (memoized)
  pc,               \* where each host is: "idle", "list" or "change"
  cur,              \* the call each host is executing
  hist,             \* the calls that have returned, in order of return
  pinged,           \* the outcomes of each host's calls of Ping, in order
  serviceAttrs,     \* service.Attrs of the services of this run
  budget            \* what the run may still do: calls and failing store calls

vars ==
  << zone, recordPerHost, useEc2Meatadata, dnsPrefix, dnsSuffix, hostname,
     pc, cur, hist, pinged, serviceAttrs, budget >>

\* The services the bridge hands to the adapter in this run.
ServiceSet ==
  { [ID |-> ServiceID(n, p), Name |-> n, Port |-> p, Attrs |-> serviceAttrs] :
      n \in ServiceNames, p \in budget.ports }

\* ------------------------------------------------- registry helper methods

\* getLocalHostname
getLocalHostname(h) == OsHostname(h)

\* getHostname: the memoized hostname, resolved on first use.
getHostname(h) ==
  IF hostname[h] = <<>>
  THEN IF useEc2Meatadata THEN ec2Meta(h, "hostname") ELSE OsHostname(h)
  ELSE hostname[h]

\* getLocalIPv4
getLocalIPv4(h) ==
  IF useEc2Meatadata THEN ec2Meta(h, "local-ipv4") ELSE externalIP(h)

\* getPublicIPv4
getPublicIPv4(h) ==
  IF useEc2Meatadata THEN ec2Meta(h, "public-ipv4") ELSE externalIP(h)

\* getTxtDomain: "<localHostname>.services.<dnsSuffix>"
getTxtDomain(h) ==
  getLocalHostname(h)
    \o << ".", "s", "e", "r", "v", "i", "c", "e", "s", "." >> \o dnsSuffix[h]

\* getServiceName: "_<name>._tcp.<dnsSuffix>"
getServiceName(h, service) ==
  << "_" >> \o service.Name \o << ".", "_", "t", "c", "p", "." >>
    \o dnsSuffix[h]

\* The name of the address records: "<name>.<dnsSuffix>"
getARecordName(h, service) == service.Name \o << "." >> \o dnsSuffix[h]

\* Mutant of getRecordID: the recordPerHost flag is ignored.
getRecordID_AlwaysName(h, recordName) == recordName

\* getRecordID: the host's hostname in record-per-host mode, else the name.
getRecordID(h, recordName) ==
  IF recordPerHost THEN getHostname(h) ELSE recordName

\* getTxtID: the identifier of the host's pointer/text record set.
getTxtID(h) == getHostname(h)

\* getTxtValue: the quoted "<host>:<suffix>:<port>|<serviceID>|<name>".
getTxtValue(h, service) ==
  << "\"" >> \o getHostname(h) \o << ":" >> \o Split(service.ID, ":")[1]
    \o << ":" >> \o Itoa(service.Port) \o << "|" >> \o service.ID
    \o << "|" >> \o service.Name \o << "\"" >>

\* The service-record value: fmt.Sprintf("1 1 %d %s", service.Port, hostname)
getSrvValue(h, service) ==
  << "1", " ", "1", " " >> \o Itoa(service.Port) \o << " " >> \o getHostname(h)

\* Mutant of publishRecord: an attribute that is present counts as true.
publishRecord_IfPresent(service, attr) == attr \in DOMAIN service.Attrs

\* The attribute test of updateLocalARecord and updatePublicARecord: the
\* attribute is present, parses as a boolean and is true.
publishRecord(service, attr) ==
  /\ attr \in DOMAIN service.Attrs
  /\ ParseBoolOk(service.Attrs[attr])
  /\ ParseBool(service.Attrs[attr])

\* Mutant of pos: the index of the last value that contains the string.
pos_LastMatch(values, value) ==
  IF \E i \in 1..Len(values) : Contains(values[i], value)
  THEN CHOOSE i \in 1..Len(values) :
         /\ Contains(values[i], value)
         /\ \A j \in (i + 1)..Len(values) : ~Contains(values[j], value)
  ELSE 0

\* ResourceRecords.pos, 1-based; 0 stands for Go's -1.
pos(values, value) ==
  IF \E i \in 1..Len(values) : Contains(values[i], value)
  THEN CHOOSE i \in 1..Len(values) :
         /\ Contains(values[i], value)
         /\ \A j \in 1..(i - 1) : ~Contains(values[j], value)
  ELSE 0

\* Mutant of removeAt: the last value is dropped, whichever matched.
removeAt_DropLast(values, i) == SubSeq(values, 1, Len(values) - 1)

\* append(resourceRecords[:pos], resourceRecords[pos+1:]...)
removeAt(values, i) ==
  SubSeq(values, 1, i - 1) \o SubSeq(values, i + 1, Len(values))


\* ------------------------------------------------- the edits of one call

\* One call of appendToRecordSet or removeFromRecordSet with its arguments.
Edit(fam, kind, name, type, value, id) ==
  [fam |-> fam, kind |-> kind, name |-> name, type |-> type,
   value |-> value, id |-> id]

\* updateLocalARecord(service, action)
updateLocalARecord(h, service, kind) ==
  IF publishRecord(service, "localarecord")
  THEN << Edit("local", kind, getARecordName(h, service), RRTypeA,
              getLocalIPv4(h), getRecordID(h, getARecordName(h, service))) >>
  ELSE <<>>

\* updatePublicARecord(service, action)
updatePublicARecord(h, service, kind) ==
  IF publishRecord(service, "publicarecord")
  THEN << Edit("public", kind, getARecordName(h, service), RRTypeA,
              getPublicIPv4(h), getRecordID(h, getARecordName(h, service))) >>
  ELSE <<>>

txtEdit(h, service, kind) ==
  Edit("txt", kind, getTxtDomain(h), RRTypeTxt, getTxtValue(h, service),
       getTxtID(h))

srvEdit(h, service, kind) ==
  Edit("srv", kind, getServiceName(h, service), RRTypeSrv,
       getSrvValue(h, service), getRecordID(h, getServiceName(h, service)))

\* Register: the edits in the order the method makes them.
RegisterEdits(h, service) ==
  updateLocalARecord(h, service, "append")
    \o updatePublicARecord(h, service, "append")
    \o << txtEdit(h, service, "append") >>
    \o << srvEdit(h, service, "append") >>

\* Mutant of DeregisterEdits: the pointer/text value is not removed.
DeregisterEdits_NoTxt(h, service) ==
  updateLocalARecord(h, service, "remove")
    \o updatePublicARecord(h, service, "remove")
    \o << srvEdit(h, service, "remove") >>

\* Deregister: the edits in the order the method makes them.
DeregisterEdits(h, service) ==
  updateLocalARecord(h, service, "remove")
    \o updatePublicARecord(h, service, "remove")
    \o << srvEdit(h, service, "remove") >>
    \o << txtEdit(h, service, "remove") >>

\* The error appendToRecordSet returns.
appendToRecordSetErr(listFailed, changeFailed) == listFailed \/ changeFailed

\* The error removeFromRecordSet returns.
removeFromRecordSetErr(listFailed, changeFailed) == listFailed

\* Mutant of RegisterErr: the error of any edit is returned.
RegisterErr_AnyEdit(errs) == \E f \in DOMAIN errs : errs[f]

\* The error Register returns, from the errors of its edits.
RegisterErr(errs) == errs["srv"]

\* The error Deregister returns, from the errors of its edits.
DeregisterErr(errs) == errs["srv"]

\* UpdateDNS: the change it submits.
UpdateDNS(name, action, type, id, values) ==
  [action |-> action, name |-> name, type |-> type, id |-> id,
   values |-> values, ttl |-> TTL]

\* nameIs(name) && typeIs(recordType) on the answer of GetServiceEntry.
nameAndTypeAre(rs, name, type) ==
  rs # Nil /\ rs.name = name /\ rs.type = type

\* Mutant of appendChange: the values already stored are not kept.
appendChange_AlwaysNew(rs, e) ==
  UpdateDNS(e.name, "UPSERT", e.type, e.id, << e.value >>)

\* appendToRecordSet after a successful GetServiceEntry: the change.
appendChange(rs, e) ==
  IF nameAndTypeAre(rs, e.name, e.type)
  THEN UpdateDNS(e.name, "UPSERT", e.type, e.id, Append(rs.values, e.value))
  ELSE UpdateDNS(e.name, "UPSERT", e.type, e.id, << e.value >>)

\* Mutant of removeSubmits: a change is submitted whether or not a value
\* matched.
removeSubmits_NameAndTypeOnly(rs, e) == nameAndTypeAre(rs, e.name, e.type)

\* removeFromRecordSet after a successful GetServiceEntry: whether it submits
\* a change at all, and which.
removeSubmits(rs, e) ==
  nameAndTypeAre(rs, e.name, e.type) /\ pos(rs.values, e.value) # 0

\* Mutant of removeChange: the only value is removed with an UPSERT.
removeChange_AlwaysUpsert(rs, e) ==
  UpdateDNS(e.name, "UPSERT", e.type, e.id,
            removeAt(rs.values, pos(rs.values, e.value)))

removeChange(rs, e) ==
  IF Len(rs.values) = 1
  THEN UpdateDNS(e.name, "DELETE", e.type, e.id, rs.values)
  ELSE UpdateDNS(e.name, "UPSERT", e.type, e.id,
                 removeAt(rs.values, pos(rs.values, e.value)))


\* ---------------------------------------------------------------- Services

\* Mutant of decodeValue: the number of colon-fields is not checked.
decodeValue_NoColonCheck(raw, ttl, hn, localHn) ==
  LET value == TrimSuffix(TrimPrefix(raw, "\""), "\"")
      parts == Split(value, "|")
  IN  IF ~(parts[1] = hn \/ parts[1] = localHn) THEN [kind |-> "skip"]
      ELSE IF Len(parts) < 3 THEN [kind |-> "panic"]
      ELSE IF ~AtoiOk(parts[3]) THEN [kind |-> "skip"]
      ELSE IF Len(parts) < 4 THEN [kind |-> "panic"]
      ELSE [kind |-> "service", ID |-> value, Name |-> parts[4],
            Port |-> Atoi(parts[3]), TTL |-> ttl]

\* One stored value in the loop of Services: skipped, returned as a service,
\* or an index out of range (a run-time panic).
decodeValue(raw, ttl, hn, localHn) ==
  LET value == TrimSuffix(TrimPrefix(raw, "\""), "\"")
      parts == Split(value, "|")
      serviceIDValue == IF Len(parts) < 4 THEN value ELSE parts[1]
      serviceIDparts == Split(serviceIDValue, ":")
  IN  IF Len(serviceIDparts) # 3 THEN [kind |-> "skip"]
      ELSE IF ~(parts[1] = hn \/ parts[1] = localHn) THEN [kind |-> "skip"]
      ELSE IF Len(parts) < 3 THEN [kind |-> "panic"]
      ELSE IF ~AtoiOk(parts[3]) THEN [kind |-> "skip"]
      ELSE IF Len(parts) < 4 THEN [kind |-> "panic"]
      ELSE [kind |-> "service", ID |-> value, Name |-> parts[4],
            Port |-> Atoi(parts[3]), TTL |-> ttl]

\* The decoded values of the listed record sets, in order; record sets that
\* are not of type TXT are skipped.
RECURSIVE decodeValues(_, _, _, _)
decodeValues(values, ttl, hn, localHn) ==
  IF values = <<>> THEN <<>>
  ELSE << decodeValue(Head(values), ttl, hn, localHn) >>
         \o decodeValues(Tail(values), ttl, hn, localHn)

RECURSIVE decodeSets(_, _, _)
decodeSets(sets, hn, localHn) ==
  IF sets = <<>> THEN <<>>
  ELSE (IF Head(sets).type # RRTypeTxt THEN <<>>
        ELSE decodeValues(Head(sets).values, Head(sets).ttl, hn, localHn))
         \o decodeSets(Tail(sets), hn, localHn)

RECURSIVE keepServices(_)
keepServices(ds) ==
  IF ds = <<>> THEN <<>>
  ELSE (IF Head(ds).kind = "service"
        THEN << [ID |-> Head(ds).ID, Name |-> Head(ds).Name,
                 Port |-> Head(ds).Port, TTL |-> Head(ds).TTL] >>
        ELSE <<>>) \o keepServices(Tail(ds))

\* The values of the listed pointer/text record sets, in the order in which
\* the loop of Services visits them.
RECURSIVE listedValues(_)
listedValues(sets) ==
  IF sets = <<>> THEN <<>>
  ELSE (IF Head(sets).type # RRTypeTxt THEN <<>> ELSE Head(sets).values)
         \o listedValues(Tail(sets))

\* The result of Services on host h when the list call succeeds, with the
\* values that it visited.
ServicesResult(h, z) ==
  LET sets == Sorted(ListFrom(z, getTxtDomain(h), RRTypeTxt, getTxtID(h)))
      ds == decodeSets(sets, getHostname(h), getLocalHostname(h))
  IN  IF \E i \in 1..Len(ds) : ds[i].kind = "panic"
      THEN [err |-> FALSE, panic |-> TRUE, services |-> <<>>,
            listed |-> listedValues(sets)]
      ELSE [err |-> FALSE, panic |-> FALSE, services |-> keepServices(ds),
            listed |-> listedValues(sets)]


\* ------------------------------------------------------------------ calls

Fams == {"local", "public", "txt", "srv"}

NoService == [none |-> TRUE]

NoResult == [none |-> TRUE]

Idle == [op |-> "none"]

\* A call of Register or Deregister that has just been entered.
NewCall(h, op, service, edits) ==
  [op |-> op, svc |-> service, edits |-> edits, ei |-> 1, pending |-> Nil,
   read |-> <<>>, errs |-> [f \in Fams |-> FALSE], steps |-> <<>>,
   changes |-> <<>>,
   alone |-> \A o \in Hosts \ {h} : pc[o] = "idle",
   fresh |-> \A i \in 1..Len(edits) :
               \A rs \in zone : rs.name # edits[i].name]

\* What is recorded of a call when it returns.
Entry(h, c, err, res) ==
  [host |-> h, op |-> c.op, svc |-> c.svc, err |-> err, errs |-> c.errs,
   steps |-> c.steps, changes |-> c.changes, alone |-> c.alone,
   fresh |-> c.fresh, res |-> res]

\* The calls of the other hosts, which now overlap a call of h.
Overlapped(h) ==
  [o \in Hosts |->
     IF o # h /\ pc[o] # "idle" THEN [cur[o] EXCEPT !.alone = FALSE]
     ELSE cur[o]]

ReturnOf(c) == IF c.op = "Register" THEN RegisterErr(c.errs)
               ELSE DeregisterErr(c.errs)

\* The current edit of call c has returned: the next edit begins, or the
\* call returns to the bridge.
Advance(h, c) ==
  IF c.ei = Len(c.edits)
  THEN /\ pc' = [pc EXCEPT ![h] = "idle"]
       /\ cur' = [cur EXCEPT ![h] = Idle]
       /\ hist' = Append(hist, Entry(h, c, ReturnOf(c), NoResult))
  ELSE /\ pc' = [pc EXCEPT ![h] = "list"]
       /\ cur' = [cur EXCEPT ![h] = [c EXCEPT !.ei = @ + 1, !.pending = Nil,
                                               !.read = <<>>]]
       /\ UNCHANGED hist

Init ==
  /\ \E p \in Profiles :
       /\ budget = [hosts |-> p.hosts, overlap |-> p.overlap,
                    ports |-> p.ports, ops |-> p.ops, fails |-> p.fails,
                    pings |-> p.pings]
       /\ zone \in p.zones
       /\ dnsPrefix \in p.prefixes
       /\ serviceAttrs \in p.attrs
  /\ recordPerHost \in BOOLEAN
  /\ useEc2Meatadata \in BOOLEAN
  /\ dnsSuffix = [h \in Hosts |-> <<>>]
  /\ hostname = [h \in Hosts |-> <<>>]
  /\ pc = [h \in Hosts |-> "idle"]
  /\ cur = [h \in Hosts |-> Idle]
  /\ hist = <<>>
  /\ pinged = [h \in Hosts |-> <<>>]

\* Mutant of PingSuffix: the configured prefix is not applied.
PingSuffix_NoPrefix(zoneName) == zoneName

\* The dnsSuffix that a successful Ping stores: the name of the hosted zone,
\* with the configured prefix and a dot in front if there is a prefix.
PingSuffix(zoneName) ==
  IF dnsPrefix # <<>> THEN dnsPrefix \o << "." >> \o zoneName ELSE zoneName

\* Ping: GetHostedZone, then dnsSuffix is set from the zone name and prefix.
\* The first successful call may be followed by further calls.
Ping(h) ==
  /\ h \in budget.hosts
  /\ pc[h] = "idle"
  /\ dnsSuffix[h] # <<>> => budget.pings > 0
  /\ \E ok \in BOOLEAN :
       LET again == IF dnsSuffix[h] # <<>> THEN 1 ELSE 0
       IN  /\ pinged' = [pinged EXCEPT ![h] = Append(@, ok)]
           /\ IF ok
              THEN /\ dnsSuffix' =
                        [dnsSuffix EXCEPT ![h] = PingSuffix(HostedZoneName)]
                   /\ budget' = [budget EXCEPT !.pings = @ - again]
              ELSE /\ budget.fails > 0
                   /\ budget' = [budget EXCEPT !.fails = @ - 1,
                                               !.pings = @ - again]
                   /\ UNCHANGED dnsSuffix
  /\ UNCHANGED << zone, recordPerHost, useEc2Meatadata, dnsPrefix, hostname,
                  pc, cur, hist, serviceAttrs >>

\* The bridge calls the other methods only after Ping has succeeded.
CanStart(h) ==
  /\ h \in budget.hosts
  /\ pc[h] = "idle"
  /\ dnsSuffix[h] # <<>>
  /\ budget.ops > 0
  /\ budget.overlap \/ \A o \in Hosts : pc[o] = "idle"

\* Register is entered: the hostname is resolved and the edits are fixed.
Register(h, service) ==
  /\ CanStart(h)
  /\ hostname' = [hostname EXCEPT ![h] = getHostname(h)]
  /\ pc' = [pc EXCEPT ![h] = "list"]
  /\ cur' = [Overlapped(h) EXCEPT ![h] =
               NewCall(h, "Register", service, RegisterEdits(h, service))]
  /\ budget' = [budget EXCEPT !.ops = @ - 1]
  /\ UNCHANGED << zone, pinged, recordPerHost, useEc2Meatadata, dnsPrefix,
                  dnsSuffix, hist, serviceAttrs >>

\* Deregister is entered.
Deregister(h, service) ==
  /\ CanStart(h)
  /\ hostname' = [hostname EXCEPT ![h] = getHostname(h)]
  /\ pc' = [pc EXCEPT ![h] = "list"]
  /\ cur' = [Overlapped(h) EXCEPT ![h] =
               NewCall(h, "Deregister", service, DeregisterEdits(h, service))]
  /\ budget' = [budget EXCEPT !.ops = @ - 1]
  /\ UNCHANGED << zone, pinged, recordPerHost, useEc2Meatadata, dnsPrefix,
                  dnsSuffix, hist, serviceAttrs >>

\* GetServiceEntry of the current edit: the list call fails, or it answers
\* and the editor decides on the change to submit.
GetServiceEntry(h) ==
  /\ pc[h] = "list"
  /\ LET c == cur[h]
         e == c.edits[c.ei]
     IN  \E ok \in BOOLEAN :
           IF ok
           THEN LET rs == ListOne(zone, e.name, e.type, e.id)
                    c1 == [c EXCEPT !.steps = Append(@, << e.fam, "list", TRUE >>)]
                    rd == IF nameAndTypeAre(rs, e.name, e.type)
                          THEN rs.values ELSE <<>>
                IN  /\ UNCHANGED budget
                    /\ IF e.kind = "append"
                       THEN /\ pc' = [pc EXCEPT ![h] = "change"]
                            /\ cur' = [cur EXCEPT ![h] =
                                 [c1 EXCEPT !.pending = appendChange(rs, e),
                                            !.read = rd]]
                            /\ UNCHANGED hist
                       ELSE IF removeSubmits(rs, e)
                       THEN /\ pc' = [pc EXCEPT ![h] = "change"]
                            /\ cur' = [cur EXCEPT ![h] =
                                 [c1 EXCEPT !.pending = removeChange(rs, e),
                                            !.read = rd]]
                            /\ UNCHANGED hist
                       ELSE Advance(h, [c1 EXCEPT !.errs[e.fam] =
                              removeFromRecordSetErr(FALSE, FALSE)])
           ELSE /\ budget.fails > 0
                /\ budget' = [budget EXCEPT !.fails = @ - 1]
                /\ Advance(h,
                     [c EXCEPT !.steps = Append(@, << e.fam, "list", FALSE >>),
                               !.errs[e.fam] =
                                 IF e.kind = "append"
                                 THEN appendToRecordSetErr(TRUE, FALSE)
                                 ELSE removeFromRecordSetErr(TRUE, FALSE)])
  /\ UNCHANGED << zone, pinged, recordPerHost, useEc2Meatadata, dnsPrefix,
                  dnsSuffix, hostname, serviceAttrs >>

\* UpdateDNS of the current edit: the change batch is applied or fails.
ChangeResourceRecordSets(h) ==
  /\ pc[h] = "change"
  /\ LET c == cur[h]
         e == c.edits[c.ei]
     IN  \E ok \in BOOLEAN :
           LET c1 == [c EXCEPT
                        !.steps = Append(@, << e.fam, "change", ok >>),
                        !.changes = Append(@, [fam |-> e.fam, kind |-> e.kind,
                                               value |-> e.value,
                                               ch |-> c.pending,
                                               read |-> c.read, ok |-> ok]),
                        !.errs[e.fam] =
                          IF e.kind = "append"
                          THEN appendToRecordSetErr(FALSE, ~ok)
                          ELSE removeFromRecordSetErr(FALSE, ~ok)]
           IN  /\ IF ok
                  THEN /\ zone' = ApplyChange(zone, c.pending)
                       /\ UNCHANGED budget
                  ELSE /\ budget.fails > 0
                       /\ budget' = [budget EXCEPT !.fails = @ - 1]
                       /\ UNCHANGED zone
               /\ Advance(h, c1)
  /\ UNCHANGED << pinged, recordPerHost, useEc2Meatadata, dnsPrefix,
                  dnsSuffix, hostname, serviceAttrs >>

\* Services: one list call from the host's pointer/text key, then decoding.
Services(h) ==
  /\ CanStart(h)
  /\ hostname' = [hostname EXCEPT ![h] = getHostname(h)]
  /\ cur' = Overlapped(h)
  /\ \E ok \in BOOLEAN :
       LET c == [op |-> "Services", svc |-> NoService,
                 errs |-> [f \in Fams |-> FALSE],
                 steps |-> << << "txt", "list", ok >> >>, changes |-> <<>>,
                 alone |-> \A o \in Hosts \ {h} : pc[o] = "idle",
                 fresh |-> FALSE]
       IN  IF ok
           THEN /\ hist' = Append(hist,
                              Entry(h, c, FALSE, ServicesResult(h, zone)))
                /\ budget' = [budget EXCEPT !.ops = @ - 1]
           ELSE /\ budget.fails > 0
                /\ budget' = [budget EXCEPT !.ops = @ - 1, !.fails = @ - 1]
                /\ hist' = Append(hist,
                              Entry(h, c, TRUE,
                                    [err |-> TRUE, panic |-> FALSE,
                                     services |-> <<>>, listed |-> <<>>]))
  /\ UNCHANGED << zone, pinged, recordPerHost, useEc2Meatadata, dnsPrefix,
                  dnsSuffix, pc, serviceAttrs >>

\* Refresh does nothing and returns nil.
Refresh(h, service) ==
  /\ h \in budget.hosts
  /\ pc[h] = "idle"
  /\ dnsSuffix[h] # <<>>
  /\ UNCHANGED vars

Next ==
  \/ \E h \in Hosts : Ping(h)
  \/ \E h \in Hosts : \E s \in ServiceSet : Register(h, s)
  \/ \E h \in Hosts : \E s \in ServiceSet : Deregister(h, s)
  \/ \E h \in Hosts : GetServiceEntry(h)
  \/ \E h \in Hosts : ChangeResourceRecordSets(h)
  \/ \E h \in Hosts : Services(h)
  \/ \E h \in Hosts : \E s \in ServiceSet : Refresh(h, s)

Spec == Init /\ [][Next]_vars


\* ---------------------------------------------------- reading the history

\* Every store call of the returned call e succeeded.
AllOk(e) == \A i \in 1..Len(e.steps) : e.steps[i][3]

\* The call e made the store call (fam, call), with the given outcome.
Did(e, fam, call, ok) ==
  \E i \in 1..Len(e.steps) : e.steps[i] = << fam, call, ok >>

SeqRange(q) == { q[i] : i \in 1..Len(q) }

\* The changes submitted so far, each with the edit that submitted it and the
\* value list that the edit had read: by the calls that have returned and by
\* the calls in progress.
SubmittedChanges ==
  UNION { SeqRange(hist[i].changes) : i \in 1..Len(hist) }
    \cup UNION { SeqRange(cur[h].changes) :
                   h \in { h \in Hosts : pc[h] # "idle" } }

\* Consecutive returned calls i and i+1 were made by the same host, one after
\* the other, with no call of another host overlapping either.
Consecutive(i) ==
  /\ i >= 1 /\ i + 1 <= Len(hist)
  /\ hist[i].host = hist[i + 1].host
  /\ hist[i].alone /\ hist[i + 1].alone

\* The record sets at the keys that the call e wrote.
AtKeysOf(e) ==
  { rs \in zone :
      \E j \in 1..Len(e.changes) :
        /\ e.changes[j].ch.name = rs.name
        /\ e.changes[j].ch.type = rs.type
        /\ e.changes[j].ch.id = rs.id }

\* -------------------------------------------------------------------- C1

\* C1: no record set of the zone has an empty value list; every change
\* submitted is an UPSERT with at least one value or a DELETE; and an edit
\* that removes the only value of the record set it read submits a DELETE of
\* that record set, never an UPSERT.
C1_NoEmptyRecordSet ==
  /\ \A rs \in zone : Len(rs.values) >= 1
  /\ \A c \in SubmittedChanges :
       /\ \/ c.ch.action = "UPSERT" /\ Len(c.ch.values) >= 1
          \/ c.ch.action = "DELETE"
       /\ (c.kind = "remove" /\ Len(c.read) = 1) =>
            (c.ch.action = "DELETE" /\ c.ch.values = c.read)
       /\ (c.kind = "remove" /\ Len(c.read) > 1) =>
            (c.ch.action = "UPSERT" /\ Len(c.ch.values) = Len(c.read) - 1)
  /\ \A h \in Hosts :
       pc[h] = "change" =>
         (cur[h].pending.action = "UPSERT" => Len(cur[h].pending.values) >= 1)

\* A Deregister has removed the only value of a record set with a DELETE that
\* the store applied, and the record set is gone.
C1_Witness ==
  \E i \in 1..Len(hist) :
    /\ hist[i].op = "Deregister"
    /\ \E j \in 1..Len(hist[i].changes) :
         LET c == hist[i].changes[j]
         IN  /\ c.fam = "srv" /\ c.ok /\ Len(c.read) = 1
             /\ c.ch.action = "DELETE"
             /\ ~\E rs \in zone : rs.name = c.ch.name /\ rs.type = c.ch.type

\* -------------------------------------------------------------------- C2

\* The entry of a Services result for the service s.
HasEntry(res, s) ==
  \E k \in 1..Len(res.services) :
    res.services[k].Name = s.Name /\ res.services[k].Port = s.Port

\* C2 (as claimed): Register(s) followed immediately by Services() on the same
\* registry, with no store failure, returns an entry with the name and the
\* port of s. The pointer/text value that Register stores carries the
\* registry's hostname as its host label.
C2_RegisterThenServices ==
  \A i \in 1..Len(hist) :
    ( /\ Consecutive(i)
      /\ hist[i].op = "Register" /\ AllOk(hist[i]) /\ ~hist[i].err
      /\ hist[i + 1].op = "Services" /\ ~hist[i + 1].err )
    => HasEntry(hist[i + 1].res, hist[i].svc)

\* -------------------------------------------------------------------- C3

\* C3: Register(s) then Deregister(s) by the same host, from a zone with no
\* record set at the names s touches and with no store failure, leaves no
\* record set at the keys that Register wrote, and a following Services()
\* has no entry for s.
C3_RegisterDeregister ==
  \A i \in 1..Len(hist) :
    ( /\ Consecutive(i)
      /\ hist[i].op = "Register" /\ AllOk(hist[i]) /\ hist[i].fresh
      /\ hist[i + 1].op = "Deregister" /\ AllOk(hist[i + 1])
      /\ hist[i + 1].svc = hist[i].svc )
    => /\ ~hist[i].err /\ ~hist[i + 1].err
       /\ ( /\ \A h \in Hosts : pc[h] = "idle"
            /\ \/ Len(hist) = i + 1
               \/ Len(hist) = i + 2 /\ hist[i + 2].op = "Services" )
            => AtKeysOf(hist[i]) = {}
       /\ ( /\ Len(hist) >= i + 2
            /\ hist[i + 2].op = "Services"
            /\ hist[i + 2].host = hist[i].host /\ hist[i + 2].alone
            /\ ~hist[i + 2].err )
            => /\ ~hist[i + 2].res.panic
               /\ ~HasEntry(hist[i + 2].res, hist[i].svc)

\* Register and Deregister of a service with both address attributes set have
\* returned, Register wrote all four record values, and Services has run.
C3_Witness ==
  /\ Len(hist) = 3
  /\ Consecutive(1)
  /\ hist[1].op = "Register" /\ AllOk(hist[1]) /\ hist[1].fresh
  /\ Len(hist[1].changes) = 4
  /\ hist[2].op = "Deregister" /\ AllOk(hist[2]) /\ hist[2].svc = hist[1].svc
  /\ Len(hist[2].changes) = 4
  /\ hist[3].op = "Services" /\ hist[3].host = hist[1].host /\ ~hist[3].err
  /\ zone = {}


\* -------------------------------------------------------------------- C4

Last(q) == q[Len(q)]

\* The calls made so far, returned or in progress, with the host of each.
CallsSoFar ==
  { [host |-> hist[i].host, op |-> hist[i].op, changes |-> hist[i].changes] :
      i \in 1..Len(hist) }
    \cup { [host |-> h, op |-> cur[h].op, changes |-> cur[h].changes] :
             h \in { h \in Hosts : pc[h] # "idle" } }

\* In record-per-host mode every SERVICE and ADDRESS change of a host carries
\* the host's own hostname as identifier, and hosts have distinct hostnames.
OwnIdentifiers ==
  /\ \A c \in CallsSoFar : \A j \in 1..Len(c.changes) :
       c.changes[j].fam # "txt" => c.changes[j].ch.id = hostname[c.host]
  /\ \A h1, h2 \in Hosts :
       (h1 # h2 /\ hostname[h1] # <<>>) => hostname[h1] # hostname[h2]

\* As long as only Register and Services have been called, the value that a
\* Register without store failure appended to a SERVICE or ADDRESS record
\* set is in the zone, in the record set identified by the caller.
NoLostUpdate ==
  (\A c \in CallsSoFar : c.op \in {"Register", "Services"}) =>
    \A i \in 1..Len(hist) :
      (hist[i].op = "Register" /\ AllOk(hist[i])) =>
        \A j \in 1..Len(hist[i].changes) :
          LET c == hist[i].changes[j]
          IN  c.fam # "txt" =>
                \E rs \in zone :
                  /\ rs.name = c.ch.name /\ rs.type = c.ch.type
                  /\ rs.id = hostname[hist[i].host]
                  /\ \E k \in 1..Len(rs.values) :
                       rs.values[k] = Last(c.ch.values)

\* A change-batch call of host h leaves alone every SERVICE and ADDRESS
\* record set that is identified by another hostname.
LeavesOthersAlone ==
  \A h \in Hosts :
    (pc[h] = "change" /\ pc'[h] # "change") =>
      \A rs \in zone :
        (rs.type # RRTypeTxt /\ rs.id # hostname[h]) => rs \in zone'

\* C4: with recordPerHost=true, under every interleaving of the store calls
\* of two hosts, the SERVICE and ADDRESS writes of each host target the
\* record set identified by its own hostname, no write changes a record set
\* identified by the other host, and after Register calls of both hosts have
\* returned the values of both are in the zone.
C4_RecordPerHostDisjoint ==
  /\ [](recordPerHost => (OwnIdentifiers /\ NoLostUpdate))
  /\ [][recordPerHost => LeavesOthersAlone]_vars

\* Two hosts have registered the same service in overlapping calls and the
\* zone holds one SERVICE record set for each of the two hostnames.
C4_Witness ==
  /\ recordPerHost
  /\ Len(hist) = 2
  /\ hist[1].op = "Register" /\ hist[2].op = "Register"
  /\ hist[1].host # hist[2].host
  /\ ~hist[1].alone /\ ~hist[2].alone
  /\ hist[1].svc.Port = hist[2].svc.Port
  /\ \A h \in Hosts :
       \E rs \in zone : rs.type = RRTypeSrv /\ rs.id = hostname[h]

\* -------------------------------------------------------------------- C5

\* The SERVICE change of a returned call.
SrvChange(e) ==
  e.changes[CHOOSE j \in 1..Len(e.changes) : e.changes[j].fam = "srv"]

\* Two Register calls of different hosts for the same service name, in shared
\* mode, are the only calls so far and both have returned without a failure.
TwoSharedRegisters ==
  /\ ~recordPerHost
  /\ Len(hist) = 2
  /\ \A h \in Hosts : pc[h] = "idle"
  /\ hist[1].op = "Register" /\ hist[2].op = "Register"
  /\ hist[1].host # hist[2].host
  /\ hist[1].svc.Name = hist[2].svc.Name
  /\ AllOk(hist[1]) /\ AllOk(hist[2])
  /\ ~hist[1].err /\ ~hist[2].err

\* C5: in shared mode two Register calls of independent hosts on the same
\* SERVICE key can lose an update. The record set holds both values when the
\* second writer listed the record set after the first change, and only the
\* value of the second writer (the last write replaces the whole value list)
\* when it listed before.
C5_SharedModeLastWriteWins ==
  TwoSharedRegisters =>
    \E rs \in zone :
      /\ rs.type = RRTypeSrv /\ rs.name = SrvChange(hist[1]).ch.name
      /\ rs.id = rs.name
      /\ \A o \in zone : (o.type = RRTypeSrv /\ o.name = rs.name) => o = rs
      /\ rs.values =
           IF SrvChange(hist[2]).read = <<>>
           THEN << Last(SrvChange(hist[2]).ch.values) >>
           ELSE << Last(SrvChange(hist[1]).ch.values),
                   Last(SrvChange(hist[2]).ch.values) >>

\* The lost update: both calls returned no error and the record set holds
\* one value only.
C5_Witness ==
  /\ TwoSharedRegisters
  /\ \E rs \in zone : rs.type = RRTypeSrv /\ Len(rs.values) = 1

\* -------------------------------------------------------------------- C6

\* C6: Register returns an error exactly when the list call or the change
\* call of the SERVICE upsert failed; whatever failed in the ADDRESS and
\* POINTER_TEXT edits, the SERVICE upsert is attempted.
C6_RegisterReturnsSrvOutcome ==
  \A i \in 1..Len(hist) :
    hist[i].op = "Register" =>
      /\ hist[i].err <=>
           (Did(hist[i], "srv", "list", FALSE)
              \/ Did(hist[i], "srv", "change", FALSE))
      /\ Did(hist[i], "srv", "list", TRUE) \/ Did(hist[i], "srv", "list", FALSE)
      /\ Did(hist[i], "srv", "list", TRUE) =>
           (Did(hist[i], "srv", "change", TRUE)
              \/ Did(hist[i], "srv", "change", FALSE))

\* A Register in which store calls of two secondary edits failed has returned
\* no error and has written the SERVICE record.
C6_Witness ==
  \E i \in 1..Len(hist) :
    /\ hist[i].op = "Register" /\ ~hist[i].err
    /\ Cardinality({ j \in 1..Len(hist[i].steps) : ~hist[i].steps[j][3] }) = 2
    /\ Did(hist[i], "srv", "change", TRUE)
    /\ \E rs \in zone : rs.type = RRTypeSrv

\* -------------------------------------------------------------------- C7

\* C7 (as claimed): Deregister returns the error of a failed change call of
\* the SERVICE removal, and returns no error only if the list call and the
\* change call of that removal succeeded or the removal was a no-op.
C7_DeregisterReturnsWriteError ==
  \A i \in 1..Len(hist) :
    hist[i].op = "Deregister" =>
      /\ Did(hist[i], "srv", "change", FALSE) => hist[i].err
      /\ ~hist[i].err =>
           (Did(hist[i], "srv", "list", TRUE)
              /\ ~Did(hist[i], "srv", "change", FALSE))


\* -------------------------------------------------------------------- C8

\* The returned calls m..m+k-1 are Registers of one host in shared mode, one
\* after the other from a zone with no record set at their names, for one
\* service name and pairwise different ports, without store failure.
RegisterRun(m, k) ==
  /\ ~recordPerHost
  /\ m >= 1 /\ k >= 2 /\ m + k - 1 <= Len(hist)
  /\ hist[m].fresh
  /\ \A i \in m..(m + k - 1) :
       /\ hist[i].op = "Register" /\ hist[i].alone /\ AllOk(hist[i])
       /\ hist[i].host = hist[m].host
  /\ \A i, j \in m..(m + k - 1) :
       /\ hist[i].svc.Name = hist[j].svc.Name
       /\ i # j => hist[i].svc.Port # hist[j].svc.Port

\* "1 1 <port> <hostname>" for the service of the returned call e.
SrvValueOf(e) ==
  << "1", " ", "1", " " >> \o Itoa(e.svc.Port) \o << " " >>
    \o hostname[e.host]

\* The SERVICE values of the calls m..m+k-1 in registration order, without
\* that of call skip.
RECURSIVE RunValues(_, _, _)
RunValues(m, k, skip) ==
  IF k = 0 THEN <<>>
  ELSE RunValues(m, k - 1, skip)
         \o (IF m + k - 1 = skip THEN <<>>
             ELSE << SrvValueOf(hist[m + k - 1]) >>)

NoDuplicates(values) ==
  \A i, j \in 1..Len(values) : i # j => values[i] # values[j]

\* C9 (as claimed): Register(s) called twice in a row by the same host leaves
\* every record set it touches with each value of s exactly once, as a single
\* Register(s) does, and one Deregister(s) then retracts s completely.
C9_RepeatedRegisterConverges ==
  \A i \in 1..Len(hist) :
    ( /\ Consecutive(i)
      /\ hist[i].op = "Register" /\ AllOk(hist[i]) /\ hist[i].fresh
      /\ hist[i + 1].op = "Register" /\ AllOk(hist[i + 1])
      /\ hist[i + 1].svc = hist[i].svc )
    => /\ (Len(hist) = i + 1 /\ \A h \in Hosts : pc[h] = "idle") =>
            \A rs \in AtKeysOf(hist[i]) : NoDuplicates(rs.values)
       /\ ( /\ Len(hist) = i + 2
            /\ \A h \in Hosts : pc[h] = "idle"
            /\ hist[i + 2].op = "Deregister"
            /\ hist[i + 2].host = hist[i].host /\ hist[i + 2].alone
            /\ AllOk(hist[i + 2]) /\ hist[i + 2].svc = hist[i].svc )
            => AtKeysOf(hist[i]) = {}

\* ------------------------------------------------------------------- C10

\* What host h's call looks like after a step: still in progress, or the
\* entry with which it returned.
After(h) == IF pc'[h] = "idle" THEN hist'[Len(hist')] ELSE cur'[h]

\* The case of the claim for the edit e: no value of any record set of the
\* zone contains the value, or no record set with the name and type exists.
NothingToRemove(e) ==
  \/ \A rs \in zone : \A k \in 1..Len(rs.values) :
       ~Contains(rs.values[k], e.value)
  \/ ~\E rs \in zone : rs.name = e.name /\ rs.type = e.type

\* C10: removeFromRecordSet, called with a value that no value of any record
\* set contains or for a name and type at which no record set exists, and
\* answered by the store's list call, submits no change, leaves every record
\* set unchanged and returns no error.
C10_RemoveAbsentIsNoOp ==
  [][\A h \in Hosts :
       ( /\ pc[h] = "list"
         /\ cur[h].edits[cur[h].ei].kind = "remove"
         /\ NothingToRemove(cur[h].edits[cur[h].ei])
         /\ After(h).steps =
              Append(cur[h].steps,
                     << cur[h].edits[cur[h].ei].fam, "list", TRUE >>) )
       => /\ zone' = zone
          /\ pc'[h] # "change"
          /\ After(h).changes = cur[h].changes
          /\ ~After(h).errs[cur[h].edits[cur[h].ei].fam]]_vars

\* A Deregister of a service that is not registered, in a zone that holds
\* record sets at the names it looks at, has returned: it listed the SERVICE
\* and the POINTER_TEXT record sets, submitted nothing and returned no error.
C10_Witness ==
  \E i \in 1..Len(hist) :
    /\ hist[i].op = "Deregister" /\ AllOk(hist[i]) /\ ~hist[i].err
    /\ ~hist[i].fresh
    /\ Did(hist[i], "srv", "list", TRUE) /\ Did(hist[i], "txt", "list", TRUE)
    /\ hist[i].changes = <<>>
    /\ Len(hist) = i
    /\ \E rs \in zone : rs.type = RRTypeSrv
    /\ \E rs \in zone : rs.type = RRTypeTxt

\* ------------------------------------------------------------------- C11

\* A stored value without the quotes that the store puts around it.
Dequote(v) == TrimSuffix(TrimPrefix(v, "\""), "\"")

\* The identity key of a stored value: its first pipe-field, or the whole
\* value when it has fewer than four pipe-fields.
IdentityKey(v) ==
  IF Len(Split(Dequote(v), "|")) < 4 THEN Dequote(v)
  ELSE Split(Dequote(v), "|")[1]

\* The host label of a stored value: the first colon-field of its key.
HostLabel(v) == Split(IdentityKey(v), ":")[1]

\* The identity key has not exactly three colon-fields, or its port is not
\* a number.
Malformed(v) ==
  \/ Len(Split(IdentityKey(v), ":")) # 3
  \/ ~AtoiOk(Split(IdentityKey(v), ":")[3])

\* The names under which host h finds its own values.
OwnNames(h) == { hostname[h], OsHostname(h) }

\* The returned calls of Services that the store answered.
ServicesCalls ==
  { i \in 1..Len(hist) : hist[i].op = "Services" /\ ~hist[i].err }

PipeFields(v) == Split(Dequote(v), "|")

KeyFields(v) == Split(PipeFields(v)[1], ":")

\* A stored value of the shape H:S:P|X|N with P a decimal number.
IsPointerText(v) ==
  /\ Len(PipeFields(v)) = 3
  /\ Len(KeyFields(v)) = 3
  /\ AllDigits(KeyFields(v)[3])

\* C12 (as claimed): a stored value H:S:P|X|N that Services visits on the host
\* named H is decoded to the name N and the port P, and returned with them.
C12_DecodePointerText ==
  \A i \in ServicesCalls :
    \A j \in 1..Len(hist[i].res.listed) :
      LET v == hist[i].res.listed[j]
      IN  (IsPointerText(v) /\ KeyFields(v)[1] \in OwnNames(hist[i].host))
            => \E k \in 1..Len(hist[i].res.services) :
                 /\ hist[i].res.services[k].Name = PipeFields(v)[3]
                 /\ hist[i].res.services[k].Port = Atoi(KeyFields(v)[3])

\* ------------------------------------------------------------------- C13

\* The store calls made so far by the calls of Deregister, returned or in
\* progress.
DeregisterSteps ==
  { hist[i].steps : i \in { i \in 1..Len(hist) : hist[i].op = "Deregister" } }
    \cup { cur[h].steps :
             h \in { h \in Hosts : pc[h] # "idle" /\ cur[h].op = "Deregister" } }

\* In the sequence of store calls, every call for family f comes before every
\* call for family g.
Before(steps, f, g) ==
  \A j, k \in 1..Len(steps) : (steps[j][1] = f /\ steps[k][1] = g) => j < k

\* C13 (as claimed): Deregister removes in the order of Register: the ADDRESS
\* values, then the POINTER_TEXT value, then the SERVICE value; no store call
\* of the SERVICE removal is made before the POINTER_TEXT removal is over.
C13_DeregisterOrder ==
  \A steps \in DeregisterSteps :
    /\ Before(steps, "local", "txt") /\ Before(steps, "public", "txt")
    /\ Before(steps, "txt", "srv")

\* ------------------------------------------------------------------- C14

\* The attribute of each address family.
AttrOf(fam) == IF fam = "local" THEN "localarecord" ELSE "publicarecord"

\* The spellings that strconv.ParseBool reads as true and as false.
TrueWords == {"1", "t", "T", "TRUE", "true", "True"}

FalseWords == {"0", "f", "F", "FALSE", "false", "False"}

\* The attribute is absent, or present but no boolean, or false.
FlagOff(service, attr) ==
  \/ attr \notin DOMAIN service.Attrs
  \/ service.Attrs[attr] \notin TrueWords \cup FalseWords
  \/ service.Attrs[attr] \in FalseWords

\* The calls of Register and Deregister so far, returned or in progress.
EditCalls ==
  { [svc |-> hist[i].svc, steps |-> hist[i].steps, errs |-> hist[i].errs] :
      i \in { i \in 1..Len(hist) : hist[i].op # "Services" } }
    \cup { [svc |-> cur[h].svc, steps |-> cur[h].steps, errs |-> cur[h].errs] :
             h \in { h \in Hosts : pc[h] # "idle" } }

AddressSets(z) == { rs \in z : rs.type = RRTypeA }

\* A call with the flag of an address family off makes no store call for
\* that family and records no error for it.
NoAddressCalls ==
  \A c \in EditCalls : \A fam \in {"local", "public"} :
    FlagOff(c.svc, AttrOf(fam)) =>
      /\ \A j \in 1..Len(c.steps) : c.steps[j][1] # fam
      /\ ~c.errs[fam]

\* A step of a call with both flags off changes no ADDRESS record set.
AddressSetsKept ==
  \A h \in Hosts :
    ( /\ pc[h] # "idle"
      /\ FlagOff(cur[h].svc, "localarecord")
      /\ FlagOff(cur[h].svc, "publicarecord")
      /\ pc'[h] # pc[h] \/ cur'[h] # cur[h] )
    => AddressSets(zone') = AddressSets(zone)

\* C14: Register and Deregister of a service whose localarecord (publicarecord)
\* attribute is absent, not a boolean or false make no list call and no
\* change call for that address family, report no error for it, and with
\* both flags off leave every ADDRESS record set as it was.
C14_AddressFlagOff ==
  /\ []NoAddressCalls
  /\ [][AddressSetsKept]_vars

\* Register of a service with localarecord not a boolean and publicarecord
\* false has returned without error: it listed and wrote the POINTER_TEXT and
\* SERVICE records only, and the ADDRESS record set of the zone is still there.
C14_Witness ==
  \E i \in 1..Len(hist) :
    /\ hist[i].op = "Register" /\ ~hist[i].err
    /\ hist[i].svc.Attrs = [localarecord |-> "yes", publicarecord |-> "false"]
    /\ Len(hist[i].steps) = 4
    /\ Did(hist[i], "txt", "change", TRUE) /\ Did(hist[i], "srv", "change", TRUE)
    /\ AddressSets(zone) # {}
    /\ \A rs \in AddressSets(zone) : rs.values = << << "9", ".", "9" >> >>

\* ------------------------------------------------------------------- C15

\* The removals submitted or about to be submitted: the value to remove, the
\* value list that was read and the change.
Removals ==
  { [value |-> c.value, read |-> c.read, ch |-> c.ch] :
      c \in { c \in SubmittedChanges : c.kind = "remove" } }
    \cup { [value |-> cur[h].edits[cur[h].ei].value, read |-> cur[h].read,
            ch |-> cur[h].pending] :
             h \in { h \in Hosts :
                       /\ pc[h] = "change"
                       /\ cur[h].edits[cur[h].ei].kind = "remove" } }

\* The values that contain the string, by their places in the list.
Matches(values, value) ==
  { k \in 1..Len(values) : Contains(values[k], value) }

\* The list without the value at place p.
Without(values, p) ==
  [k \in 1..(Len(values) - 1) |-> IF k < p THEN values[k] ELSE values[k + 1]]

\* C15: a removal takes out exactly one value, the first in the order of the
\* record set that contains the given string; the other values, later
\* matches among them, stay in their order (or the record set is deleted
\* when the value was the only one). An edit submits at most one change.
C15_RemovesFirstMatchOnly ==
  /\ \A r \in Removals :
       /\ Matches(r.read, r.value) # {}
       /\ \E p \in Matches(r.read, r.value) :
            /\ \A q \in Matches(r.read, r.value) : p <= q
            /\ IF Len(r.read) = 1
               THEN r.ch.action = "DELETE"
               ELSE r.ch.action = "UPSERT" /\ r.ch.values = Without(r.read, p)
  /\ \A i \in 1..Len(hist) : \A fam \in Fams :
       Cardinality({ j \in 1..Len(hist[i].changes) :
                       hist[i].changes[j].fam = fam }) <= 1

\* A Deregister has removed the first of two values that both contain its
\* string; the second is still in the record set.
C15_Witness ==
  \E i \in 1..Len(hist) :
    /\ hist[i].op = "Deregister" /\ Len(hist) = i
    /\ \E j \in 1..Len(hist[i].changes) :
         LET c == hist[i].changes[j]
         IN  /\ c.fam = "srv" /\ c.ok
             /\ Cardinality(Matches(c.read, c.value)) = 2
             /\ Cardinality(Matches(c.ch.values, c.value)) = 1
             /\ \E rs \in zone :
                  /\ rs.name = c.ch.name /\ rs.type = c.ch.type
                  /\ rs.values = Without(c.read, 1)

\* ------------------------------------------------------------------- C16

\* C16 (as claimed): every entry that Services returns on host h carries the
\* registry hostname or the OS hostname of h as host label, and every
\* well-formed value that Services visits with one of these two host labels
\* is returned, as an entry whose ID is the dequoted value.
C16_ServicesReturnsOwnValues ==
  \A i \in ServicesCalls :
    /\ \A k \in 1..Len(hist[i].res.services) :
         Split(hist[i].res.services[k].ID, ":")[1] \in OwnNames(hist[i].host)
    /\ \A j \in 1..Len(hist[i].res.listed) :
         ( /\ IsPointerText(hist[i].res.listed[j])
           /\ KeyFields(hist[i].res.listed[j])[1] \in OwnNames(hist[i].host) )
         => \E k \in 1..Len(hist[i].res.services) :
              hist[i].res.services[k].ID = Dequote(hist[i].res.listed[j])

\* ------------------------------------------------------------------- C17

\* The zone name with the configured prefix in front.
ExpectedSuffix ==
  IF dnsPrefix = << "p" >> THEN << "p", ".", "z", "." >> ELSE << "z", "." >>

\* Host h has called Ping with success.
HasPinged(h) == \E k \in 1..Len(pinged[h]) : pinged[h][k]

\* From the first successful Ping on, dnsSuffix is the zone name with the
\* prefix; before, it is unset.
SuffixFromPing ==
  \A h \in Hosts :
    dnsSuffix[h] = IF HasPinged(h) THEN ExpectedSuffix ELSE <<>>

\* No step changes a dnsSuffix that is set, and a failed Ping changes none.
SuffixKept ==
  \A h \in Hosts :
    /\ HasPinged(h) => dnsSuffix'[h] = dnsSuffix[h]
    /\ (Len(pinged'[h]) > Len(pinged[h]) /\ ~Last(pinged'[h]))
         => dnsSuffix'[h] = dnsSuffix[h]

ChangesOf(h) ==
  UNION { SeqRange(hist[i].changes) :
            i \in { i \in 1..Len(hist) : hist[i].host = h } }
    \cup (IF pc[h] # "idle" THEN SeqRange(cur[h].changes) ELSE {})

\* The values that host h has registered: those its upserts appended.
RegisteredBy(h) ==
  { c.value : c \in { c \in ChangesOf(h) : c.kind = "append" } }

\* C18 (as claimed): in record-per-host mode the SERVICE and ADDRESS record
\* sets identified by the hostname of h hold no value that another host
\* registered and h did not.
C18_RecordPerHostOwnValuesOnly ==
  recordPerHost =>
    \A h \in Hosts : \A rs \in zone :
      (rs.type # RRTypeTxt /\ hostname[h] # <<>> /\ rs.id = hostname[h]) =>
        \A k \in 1..Len(rs.values) : \A o \in Hosts \ {h} :
          rs.values[k] \in RegisteredBy(o) => rs.values[k] \in RegisteredBy(h)

\* ------------------------------------------------------------------- C19

\* The value that the removal c took out of the list it read.
Removed(c) ==
  c.read[CHOOSE p \in Matches(c.read, c.value) :
           \A q \in Matches(c.read, c.value) : p <= q]

\* C19 (as claimed): in shared mode a Deregister of host h never takes out
\* of a SERVICE or ADDRESS record set a value that another host registered
\* and h did not, whatever the hostnames and addresses of the hosts are.
C19_DeregisterRemovesOwnValueOnly ==
  ~recordPerHost =>
    \A h \in Hosts :
      \A c \in { c \in ChangesOf(h) : c.kind = "remove" /\ c.fam # "txt" } :
        \A o \in Hosts \ {h} :
          Removed(c) \in RegisteredBy(o) => Removed(c) \in RegisteredBy(h)

====
